---- MODULE Spec2Model ----
(***************************************************************************)
(* State-machine model of the Itsyhome Stream Deck action controllers.     *)
(*                                                                         *)
(* One controller (a SingletonAction subclass) serves every button of its  *)
(* action type.  Its handlers are async functions: each handler is cut at  *)
(* its awaits on the device-control client (getDeviceInfo, toggle, ...)    *)
(* and on action.getSettings(), and every piece between two awaits is one  *)
(* atomic action here, because the runtime is single-threaded.  A handler  *)
(* that is waiting at an await is a record in the bag `tasks`.  Calls on   *)
(* the button's display handle (setImage, setState, setTitle, showAlert,   *)
(* showOk) take effect in the piece that makes them.                       *)
(***************************************************************************)
EXTENDS Integers, FiniteSets, Sequences, Bags, TLC

(***************************************************************************)
(* Bounds of the model.                                                    *)
(***************************************************************************)
MaxTasks == 2        \* handlers that may be waiting at an await at once
MaxAdvances == 3     \* clock advances explored

(***************************************************************************)
(* Program constants.                                                      *)
(***************************************************************************)
HOLD_MS == 30000                     \* Date.now() + 30000 in lock / garage door
TimeStep == HOLD_MS \div 2           \* granularity of the modelled clock
MaxTime == MaxAdvances * TimeStep

Ctx == {"c1", "c2"}                  \* button instance ids (ev.action.id)
Targets == {"t1"}                    \* configured device targets
NoTarget == "none"                   \* settings.target undefined or ""
DEFAULT_PORT == 8423                 \* new ItsyhomeClient(): port = DEFAULT_PORT
NoPort == 0                          \* settings.port undefined or 0
CustomPorts == {9999}
NoCtx == "none"

Kinds == {"toggle", "light", "fan", "humidifier", "thermostat", "lock",
          "garage", "security", "group", "status", "blinds", "brightness",
          "scene"}
\* a slip: the scene controller polls like the others
PollingKindsAll == Kinds
PollingKinds == Kinds \ {"scene"}    \* controllers with a poll timer
\* a slip: the status controller handles key presses like a toggle
KeyKindsAll == Kinds
KeyKinds == Kinds \ {"status"}       \* controllers with an onKeyDown
CacheKinds == {"toggle", "light", "fan", "humidifier", "thermostat", "lock",
               "garage", "security", "group"}
HoldKinds == {"lock", "garage"}      \* controllers with optimisticUntil
\* controllers whose onKeyDown reads the cache before awaiting the command
StaleReadKinds == {"light", "fan", "humidifier", "security", "group"}
\* controllers whose tick skips a button without setState ("setState" in action)
CheckKinds == CacheKinds

DoorStates == {"closed", "open", "opening", "closing"}
SECURITY_DISARMED == 3
SECURITY_AWAY_ARM == 1
SecurityStates == 0 .. 4

\* The primary state a controller keeps per target.
Values(k) ==
  CASE k = "garage" -> DoorStates
    [] k = "security" -> SecurityStates
    [] OTHER -> BOOLEAN

VARIABLES
  kind,            \* which controller class this instance is
  buttons,         \* the buttons of this action type in the user's profile
  dials,           \* the buttons that are not keys: their handle has no setState
  visible,         \* this.actions: the buttons the host currently shows
  activeContexts,  \* this.activeContexts
  pollTimer,       \* this.pollTimer is non-null
  timers,          \* live setInterval timers of this controller
  settings,        \* the host's settings of each button: its target
  cache,           \* the controller's cache map: target -> primary state
  optimisticUntil, \* the hold map: target -> expiry, 0 when absent
  now,             \* Date.now()
  shown,           \* last setState value of each button, -1 before any
  tasks,           \* handlers waiting at an await
  cmdTime,         \* time the last successful command on a target was processed
  ev,              \* what the last step did
  calc,            \* a presentation function applied to chosen inputs
  client,          \* this.client: the port the controller's client talks to
  port,            \* the host's settings of each button: its port, 0 when not set
  seen             \* the target in the settings last handed to the controller

vars == <<seen, client, port, calc, dials, kind, buttons, visible, activeContexts, pollTimer, timers, settings, cache,
          optimisticUntil, now, shown, tasks, cmdTime, ev>>

NoSnap == [x \in {} |-> TRUE]
\* cache.get(t) as a function on {t} or on {} when there is no entry
Snap(t) == [x \in ({t} \cap DOMAIN cache) |-> cache[x]]
\* cache.set(t, v)
CachePut(t, v) == [x \in (DOMAIN cache \cup {t}) |-> IF x = t THEN v ELSE cache[x]]

NoArg == -1      \* the command takes no number
NoArm == -1      \* settings.armMode is undefined

Ev(op, c, t) ==
  [op |-> op, c |-> c, t |-> t, req |-> "none", res |-> "none",
   org |-> "none", rendered |-> FALSE, alert |-> FALSE, ok |-> FALSE,
   logged |-> FALSE, basis |-> NoSnap, absent |-> FALSE, br |-> FALSE, label |-> "",
   arg |-> NoArg, arm |-> NoArm, dir |-> "", icon |-> "", titled |-> FALSE]

Task(op, c, t) ==
  [op |-> op, pc |-> "fetch", c |-> c, t |-> t, snap |-> NoSnap,
   arm |-> SECURITY_AWAY_ARM, done |-> {}]

Add(b, task) == b (+) SetToBag({task})
Remove(b, task) == b (-) SetToBag({task})

(***************************************************************************)
(* What the control server may answer to getDeviceInfo: a thrown error, an *)
(* empty array, or a device whose primary state field is present (has, v)  *)
(* or absent; br says that state.brightness is present and > 0.            *)
(***************************************************************************)
Filler(k) == CHOOSE x \in Values(k) : TRUE
Responses(k) ==
  {[res |-> r, has |-> FALSE, v |-> Filler(k), br |-> FALSE] : r \in {"throw", "empty"}}
  \cup {[res |-> "ok", has |-> FALSE, v |-> Filler(k), br |-> b] :
          b \in IF k \in {"light", "group", "brightness"} THEN BOOLEAN ELSE {FALSE}}
  \cup {[res |-> "ok", has |-> TRUE, v |-> x, br |-> FALSE] : x \in Values(k)}

\* a slip: every absent field is taken for false
FetchedFalse(k, r) ==
  CASE k = "garage" -> IF r.has THEN r.v ELSE "closed"
    [] k = "security" -> IF r.has THEN r.v ELSE SECURITY_DISARMED
    [] OTHER -> IF r.has THEN r.v ELSE FALSE

\* updateState: the primary state derived from a fetched device
Fetched(k, r) ==
  CASE k = "lock" -> IF r.has THEN r.v ELSE TRUE
    [] k = "garage" -> IF r.has THEN r.v ELSE "closed"
    [] k = "security" -> IF r.has THEN r.v ELSE SECURITY_DISARMED
    [] k \in {"light", "group"} -> IF r.has THEN r.v ELSE r.br
    [] OTHER -> IF r.has THEN r.v ELSE FALSE

\* applyVisualState: the integer handed to action.setState
StateBit(k, v) ==
  CASE k = "garage" -> IF v \in {"open", "opening"} THEN 1 ELSE 0
    [] k = "security" -> IF v = SECURITY_DISARMED THEN 0 ELSE 1
    [] OTHER -> IF v THEN 1 ELSE 0

\* a slip: the missing entry is taken for unlocked / open
AssumedOpposite(k, basis) ==
  IF DOMAIN basis # {} THEN basis[CHOOSE x \in DOMAIN basis : TRUE]
  ELSE IF k = "garage" THEN "open" ELSE FALSE

\* onKeyDown of lock / garage door: cached?.isLocked ?? true, cached?.doorState ?? "closed"
AssumedPrevious(k, basis) ==
  IF DOMAIN basis # {} THEN basis[CHOOSE x \in DOMAIN basis : TRUE]
  ELSE IF k = "garage" THEN "closed" ELSE TRUE

\* a slip: the cached value is written back without inverting it
OptimisticSame(k, prev, arm) == prev

\* onKeyDown: the state synthesized from the value the handler read
OptimisticValue(k, prev, arm) ==
  CASE k = "garage" -> IF prev \in {"closed", "closing"} THEN "open" ELSE "closed"
    [] k = "security" -> IF prev = SECURITY_DISARMED THEN arm ELSE SECURITY_DISARMED
    [] OTHER -> ~prev

\* a slip: <= for <, the hold lasts one instant too long
HeldLate(until, time) == until # 0 /\ time <= until

\* updateState of lock / garage door: holdUntil && Date.now() < holdUntil
Held(until, time) == until # 0 /\ time < until

\* a slip: the hold is not counted from the clock
HoldExpiryFixed(time) == HOLD_MS

\* onKeyDown of lock / garage door: Date.now() + 30000
HoldExpiry(time) == time + HOLD_MS

\* startPolling: if (this.pollTimer) return; this.pollTimer = setInterval(...)
StartPolling(pt, n) ==
  IF pt THEN [pollTimer |-> pt, timers |-> n]
  ELSE [pollTimer |-> TRUE, timers |-> n + 1]

\* a slip: the timer is left alone
StopPollingNever(pt, n) == [pollTimer |-> pt, timers |-> n]

\* stopPolling: if (this.pollTimer) { clearInterval(this.pollTimer); this.pollTimer = null }
StopPolling(pt, n) ==
  IF pt THEN [pollTimer |-> FALSE, timers |-> n - 1]
  ELSE [pollTimer |-> pt, timers |-> n]

\* a slip: the guard on the target is missing
NoTargetUnchecked(k, t, hasLevel) == k = "brightness" /\ ~hasLevel

\* onKeyDown: if (!target) (set-brightness: !target || brightness == null)
NoTargetConfigured(k, t, hasLevel) ==
  t = NoTarget \/ (k = "brightness" /\ ~hasLevel)

\* a slip: result.status is not looked at
CommandThrew(out) == out = "throw"

\* onKeyDown: result.status === "error", or the client call threw
CommandFailed(out) == out \in {"error", "throw"}

\* a slip: the optimistic update is not guarded by if (cached)
UpdatesAlways(k, basis) == k \in CacheKinds

\* onKeyDown: lock and garage door always update, the others only if (cached)
Updates(k, basis) ==
  /\ k \in CacheKinds
  /\ k \in HoldKinds \/ DOMAIN basis # {}

\* controllers explored with two buttons
PairKinds == {"toggle", "lock"}

NoCalc == [fn |-> "none"]

Fresh ==
  /\ client = DEFAULT_PORT
  /\ visible = {}
  /\ activeContexts = {}
  /\ pollTimer = FALSE
  /\ timers = 0
  /\ settings \in [Ctx -> Targets \cup {NoTarget}]
  /\ seen = settings
  /\ \A c \in Ctx \ buttons : settings[c] = NoTarget
  /\ cache = NoSnap
  /\ optimisticUntil = [t \in Targets |-> 0]
  /\ now = 0
  /\ shown = [c \in Ctx |-> -1]
  /\ tasks = EmptyBag
  /\ cmdTime = [t \in Targets |-> -1]
  /\ ev = Ev("init", NoCtx, NoTarget)

Start ==
  /\ Fresh
  /\ calc = NoCalc
  /\ port = [c \in Ctx |-> NoPort]

\* every controller, one button, a key or a dial
Init ==
  /\ kind \in Kinds
  /\ buttons = {"c1"}
  /\ dials \in SUBSET buttons
  /\ Start

\* two buttons handled by one controller
InitPair ==
  /\ kind \in PairKinds
  /\ buttons = Ctx
  /\ dials = {}
  /\ Start

InHold(t) == kind \in HoldKinds /\ t # NoTarget /\ Held(optimisticUntil[t], now)

\* scene onWillAppear / onDidReceiveSettings without a scene: setDefaultIcon
\* draws the sparkle, then setTitle(label || scene || "") is called
IconAtOnce(t) == IF kind = "scene" /\ t = NoTarget THEN "sparkle" ELSE ""
TitlesAtOnce(t) == kind = "scene" /\ t = NoTarget
Room == BagCardinality(tasks) < MaxTasks

\* a slip: the closed picture is not drawn before the fetch
ShowsClosedNever(k) == FALSE

\* onWillAppear of the garage door: applyVisualState(action, "closed") first
ShowsClosedFirst(k) == k = "garage"

(***************************************************************************)
(* onWillAppear, up to its first await on the client.  The host adds the   *)
(* button to this.actions when it shows it.  Under a hold updateState      *)
(* returns at once, and so does a missing target: startPolling then runs   *)
(* in the same turn.  Otherwise the handler waits for getDeviceInfo        *)
(* (scene: listScenes) with startPolling still ahead of it.                *)
(***************************************************************************)
\* if (port) { this.client = new ItsyhomeClient(undefined, port) }
Rebuilt(cl, p) == IF p # NoPort THEN p ELSE cl

WillAppear(c) ==
  /\ c \in buttons
  /\ c \notin visible
  /\ visible' = visible \cup {c}
  /\ LET t == settings[c]
         closed == ShowsClosedFirst(kind)
         \* on a dial setState is not a function: the garage door handler
         \* rejects after setImage, before updateState and startPolling
         thrown == closed /\ c \in dials
         fetch == ~thrown /\ t # NoTarget /\ ~InHold(t)
         first == closed \/ (t = NoTarget /\ kind \in {"blinds", "scene"})
         sp == IF thrown THEN [pollTimer |-> pollTimer, timers |-> timers]
               ELSE StartPolling(pollTimer, timers)
     IN
     /\ activeContexts' = IF kind \in PollingKinds THEN activeContexts \cup {c}
                          ELSE activeContexts
     /\ shown' = IF closed /\ c \notin dials THEN [shown EXCEPT ![c] = 0] ELSE shown
     /\ IF fetch
        THEN /\ Room
             /\ tasks' = Add(tasks, Task("appear", c, t))
             /\ optimisticUntil' = IF kind \in HoldKinds
                                   THEN [optimisticUntil EXCEPT ![t] = 0]
                                   ELSE optimisticUntil
             /\ UNCHANGED <<pollTimer, timers>>
             /\ ev' = [Ev("willAppear", c, t) EXCEPT
                         !.req = IF kind = "scene" THEN "listScenes" ELSE "getDeviceInfo",
                         !.rendered = first]
        ELSE /\ IF kind \in PollingKinds
                THEN pollTimer' = sp.pollTimer /\ timers' = sp.timers
                ELSE UNCHANGED <<pollTimer, timers>>
             /\ UNCHANGED <<tasks, optimisticUntil>>
             /\ ev' = [Ev("willAppear", c, t) EXCEPT
                         !.rendered = first, !.icon = IconAtOnce(t),
                         !.titled = TitlesAtOnce(t)]
  /\ client' = Rebuilt(client, port[c])
  /\ seen' = [seen EXCEPT ![c] = settings[c]]
  /\ UNCHANGED <<port, calc, dials, kind, buttons, settings, cache, now, cmdTime>>

(***************************************************************************)
(* onWillDisappear: synchronous.  The scene controller has no such handler.*)
(***************************************************************************)
WillDisappear(c) ==
  /\ c \in visible
  /\ visible' = visible \ {c}
  /\ LET left == activeContexts \ {c}
         sp == StopPolling(pollTimer, timers)
     IN
     IF kind \in PollingKinds
     THEN /\ activeContexts' = left
          /\ IF left = {}
             THEN pollTimer' = sp.pollTimer /\ timers' = sp.timers
             ELSE UNCHANGED <<pollTimer, timers>>
     ELSE UNCHANGED <<activeContexts, pollTimer, timers>>
  /\ ev' = Ev("willDisappear", c, NoTarget)
  /\ UNCHANGED <<seen, client, port, calc, dials, kind, buttons, settings, cache, optimisticUntil, now, shown, tasks, cmdTime>>

(***************************************************************************)
(* onDidReceiveSettings, up to its first await on the client.  The host    *)
(* has stored the new settings before it delivers the event.               *)
(***************************************************************************)
\* a slip: every controller draws a default when the target is removed
DrawsDefaultAlways(k) == TRUE

\* onDidReceiveSettings: the controllers with an else branch for a missing target
DrawsDefault(k) == k \in {"garage", "blinds", "scene"}

DidReceiveSettings(c, t, p) ==
  /\ c \in visible
  /\ settings' = [settings EXCEPT ![c] = t]
  /\ port' = [port EXCEPT ![c] = p]
  /\ seen' = [seen EXCEPT ![c] = t]
  /\ client' = Rebuilt(client, p)
  /\ LET fetch == t # NoTarget /\ ~InHold(t)
         default == t = NoTarget /\ DrawsDefault(kind)
     IN
     /\ shown' = IF t = NoTarget /\ kind = "garage" /\ c \notin dials
                 THEN [shown EXCEPT ![c] = 0]
                 ELSE shown
     /\ IF fetch
        THEN /\ Room
             /\ tasks' = Add(tasks, Task("settings", c, t))
             /\ optimisticUntil' = IF kind \in HoldKinds
                                   THEN [optimisticUntil EXCEPT ![t] = 0]
                                   ELSE optimisticUntil
             /\ ev' = [Ev("didReceiveSettings", c, t) EXCEPT
                         !.req = IF kind = "scene" THEN "listScenes" ELSE "getDeviceInfo"]
        ELSE /\ UNCHANGED <<tasks, optimisticUntil>>
             /\ ev' = [Ev("didReceiveSettings", c, t) EXCEPT
                         !.rendered = default, !.icon = IconAtOnce(t),
                         !.titled = TitlesAtOnce(t)]
  /\ UNCHANGED <<calc, dials, kind, buttons, visible, activeContexts, pollTimer, timers, cache, now, cmdTime>>

(***************************************************************************)
(* The rest of updateState / updateDisplay / updateSceneIcon once the      *)
(* response r is in: what is cached and what is drawn on the button.       *)
(***************************************************************************)
\* a slip: if (!device) return is missing
FetchCachesEmpty(r) == kind \in CacheKinds /\ r.res # "throw"

\* updateState: the cache is written once a device is in hand
FetchCaches(r) == kind \in CacheKinds /\ r.res = "ok"
FetchRenders(r) ==
  \/ r.res = "ok"
  \/ kind = "scene"                          \* fallback icon, then setTitle
  \/ kind = "brightness" /\ r.res = "throw"  \* setTitle in the catch block

\* the device came without its primary state field
FetchAbsent(r) == r.res = "ok" /\ ~r.has

\* STATE_LABELS[securityState] ?? "Unknown"
SecurityLabel(v) ==
  CASE v = 0 -> "Stay"
    [] v = SECURITY_AWAY_ARM -> "Away"
    [] v = 2 -> "Night"
    [] v = SECURITY_DISARMED -> "Off"
    [] v = 4 -> "Alarm!"
    [] OTHER -> "Unknown"

\* security updateState: the state label put into the title (after setState)
FetchLabel(c, r) ==
  IF kind = "security" /\ r.res = "ok" /\ c \notin dials
  THEN SecurityLabel(Fetched(kind, r))
  ELSE ""

\* updateSceneIcon: scene?.icon ?? "sparkle", and setDefaultIcon in the catch block
SceneIcon(r) == IF r.res = "ok" /\ r.has THEN "api" ELSE "sparkle"

\* the icon the scene controller draws once the catalog call is over
FetchIcon(r) == IF kind = "scene" THEN SceneIcon(r) ELSE ""

\* whether the rest of the handler calls setTitle: after a device is in hand
\* (on a dial of a controller that calls setState the handler has thrown by
\* then), always for the scene controller, and in set-brightness's catch block
TitlesOnFetch(c, r) ==
  \/ kind = "scene"
  \/ kind = "brightness" /\ r.res = "throw"
  \/ /\ r.res = "ok"
     /\ kind \in {"status", "brightness", "group", "light", "humidifier", "blinds",
                  "thermostat", "fan", "security"}
     /\ ~(kind \in CheckKinds /\ c \in dials)

ApplyFetch(c, t, r) ==
  /\ cache' = IF FetchCaches(r) THEN CachePut(t, Fetched(kind, r)) ELSE cache
  /\ shown' = IF FetchCaches(r) /\ c \notin dials
              THEN [shown EXCEPT ![c] = StateBit(kind, Fetched(kind, r))]
              ELSE shown

(***************************************************************************)
(* The fetch awaited by onWillAppear, onDidReceiveSettings or (set-        *)
(* brightness) onKeyDown completes; onWillAppear then calls startPolling.  *)
(***************************************************************************)
\* a slip: every handler that fetches goes on to startPolling
StartsPollingAlways(op) == TRUE

\* only onWillAppear calls this.startPolling() after its updateState
StartsPolling(op) == op = "appear"

FetchDone(task, r) ==
  /\ BagIn(task, tasks)
  /\ task.op \in {"appear", "settings", "display"}
  /\ tasks' = Remove(tasks, task)
  /\ ApplyFetch(task.c, task.t, r)
  /\ LET sp == StartPolling(pollTimer, timers) IN
     IF StartsPolling(task.op) /\ kind \in PollingKinds
     THEN pollTimer' = sp.pollTimer /\ timers' = sp.timers
     ELSE UNCHANGED <<pollTimer, timers>>
  /\ ev' = [Ev("fetchDone", task.c, task.t) EXCEPT
              !.org = task.op, !.res = r.res, !.rendered = FetchRenders(r),
              !.icon = FetchIcon(r), !.titled = TitlesOnFetch(task.c, r),
              !.absent = FetchAbsent(r), !.br = r.br, !.label = FetchLabel(task.c, r)]
  /\ UNCHANGED <<seen, client, port, calc, dials, kind, buttons, visible, activeContexts, settings, optimisticUntil, now, cmdTime>>

ArmModes == 0 .. 2
Directions == {"", "open", "close"}  \* settings.direction, "" when not set

\* a slip: || for ??, Stay (0) falls back to Away as well
TargetModeOr(arm) == IF arm = NoArm \/ arm = 0 THEN SECURITY_AWAY_ARM ELSE arm

\* security onKeyDown: const targetMode = armMode ?? SECURITY_STATE.AWAY_ARM
TargetMode(arm) == IF arm = NoArm THEN SECURITY_AWAY_ARM ELSE arm

\* blinds onKeyDown: direction = settings.direction || "open"; open is 100, close is 0
Position(dir) ==
  LET direction == IF dir = "" THEN "open" ELSE dir IN
  IF direction = "open" THEN 100 ELSE 0

\* the number sent with the command
Argument(k, req, arm, dir) ==
  CASE req = "armSecurity" -> TargetMode(arm)
    [] k = "blinds" -> Position(dir)
    [] OTHER -> NoArg

\* onKeyDown: the client call the controller makes
Command(k, snap, tb) ==
  LET has == DOMAIN snap # {}
      val == snap[CHOOSE x \in DOMAIN snap : TRUE]
  IN
  CASE k = "light" -> IF tb /\ has THEN (IF val THEN "turnOff" ELSE "setBrightness")
                      ELSE "toggle"
    [] k = "group" -> IF has /\ val THEN "turnOff" ELSE "turnOn"
    [] k = "security" -> IF has /\ val # SECURITY_DISARMED THEN "disarmSecurity"
                         ELSE "armSecurity"
    [] k = "blinds" -> "setPosition"
    [] k = "brightness" -> "setBrightness"
    [] k = "scene" -> "executeScene"
    [] OTHER -> "toggle"

(***************************************************************************)
(* onKeyDown, up to its await on the command.  hasLevel: settings.         *)
(* brightness is set (set-brightness); arm: settings.armMode ?? Away       *)
(* (security), NoArm when undefined; tb: settings.targetBrightness is set   *)
(* (light); dir: settings.direction (blinds).                              *)
(***************************************************************************)
KeyDown(c, hasLevel, arm, tb, dir) ==
  /\ kind \in KeyKinds
  /\ c \notin dials
  /\ c \in visible
  /\ LET t == settings[c] IN
     IF NoTargetConfigured(kind, t, hasLevel)
     THEN /\ ev' = [Ev("keyDown", c, t) EXCEPT !.alert = TRUE]
          /\ UNCHANGED tasks
     ELSE /\ Room
          /\ tasks' = Add(tasks, [Task("keydown", c, t) EXCEPT
                                    !.snap = IF kind \in StaleReadKinds THEN Snap(t) ELSE NoSnap,
                                    !.arm = TargetMode(arm)])
          /\ ev' = [Ev("keyDown", c, t) EXCEPT
                      !.req = Command(kind, Snap(t), tb),
                      !.arg = Argument(kind, Command(kind, Snap(t), tb), arm, dir),
                      !.arm = arm, !.dir = dir]
  /\ UNCHANGED <<seen, client, port, calc, dials, kind, buttons, visible, activeContexts, pollTimer, timers, settings, cache,
                 optimisticUntil, now, shown, cmdTime>>

(***************************************************************************)
(* The command awaited by onKeyDown completes with `out`: the status of    *)
(* the parsed result, or "throw" when the client call threw.               *)
(***************************************************************************)
Outcomes == {"success", "partial", "error", "throw"}

KeyDownDone(task, out) ==
  /\ BagIn(task, tasks)
  /\ task.op = "keydown"
  /\ LET c == task.c
         t == task.t
         basis == IF kind \in StaleReadKinds THEN task.snap ELSE Snap(t)
         nv == OptimisticValue(kind, AssumedPrevious(kind, basis), task.arm)
         update == Updates(kind, basis)
     IN
     IF CommandFailed(out)
     THEN /\ tasks' = Remove(tasks, task)
          /\ ev' = [Ev("keyDownDone", c, t) EXCEPT
                      !.res = out, !.logged = TRUE, !.alert = TRUE]
          /\ UNCHANGED <<cache, optimisticUntil, shown, cmdTime>>
     ELSE /\ tasks' = IF kind = "brightness"
                      THEN Add(Remove(tasks, task), Task("display", c, t))
                      ELSE Remove(tasks, task)
          /\ cache' = IF update THEN CachePut(t, nv) ELSE cache
          /\ shown' = IF update THEN [shown EXCEPT ![c] = StateBit(kind, nv)] ELSE shown
          /\ optimisticUntil' = IF kind \in HoldKinds
                                THEN [optimisticUntil EXCEPT ![t] = HoldExpiry(now)]
                                ELSE optimisticUntil
          /\ cmdTime' = IF kind \in HoldKinds THEN [cmdTime EXCEPT ![t] = now]
                        ELSE cmdTime
          /\ ev' = [Ev("keyDownDone", c, t) EXCEPT
                      !.res = out, !.rendered = update, !.basis = basis,
                      !.arg = IF kind = "security" THEN task.arm ELSE NoArg,
                      !.label = IF kind = "security" /\ update THEN SecurityLabel(nv) ELSE "",
                      !.ok = (kind \in {"blinds", "scene", "brightness"}),
                      !.req = IF kind = "brightness" THEN "getDeviceInfo" ELSE "none"]
  /\ UNCHANGED <<seen, client, port, calc, dials, kind, buttons, visible, activeContexts, pollTimer, timers, settings, now>>

(***************************************************************************)
(* The poll tick: the async callback handed to setInterval.  It walks      *)
(* this.actions; for each button it awaits action.getSettings(), then      *)
(* awaits updateState.  Nothing stops a second tick from starting while    *)
(* an earlier one is still waiting.  The order of this.actions is the      *)
(* host's: any button not yet visited may come next.                       *)
(***************************************************************************)
PollTask(c, done) ==
  [Task("poll", c, NoTarget) EXCEPT !.pc = "settings", !.done = done]

\* a slip: the capability check is missing everywhere
EligibleAll == visible

\* tick: if (!("setState" in action)) continue; absent in status, blinds, set-brightness
Eligible == IF kind \in CheckKinds THEN visible \ dials ELSE visible

\* the for-loop moves on to the next button, or the callback returns
PollNext(task, rest) ==
  LET todo == Eligible \ task.done IN
  IF todo = {} THEN tasks' = rest
  ELSE \E c \in todo : tasks' = Add(rest, PollTask(c, task.done \cup {c}))

Tick ==
  /\ kind \in PollingKinds
  /\ timers > 0
  /\ IF Eligible = {}
     THEN /\ UNCHANGED tasks
          /\ ev' = Ev("tick", NoCtx, NoTarget)
     ELSE /\ Room
          /\ \E c \in Eligible :
               /\ tasks' = Add(tasks, PollTask(c, {c}))
               /\ ev' = Ev("tick", c, NoTarget)
  /\ UNCHANGED <<seen, client, port, calc, dials, kind, buttons, visible, activeContexts, pollTimer, timers, settings, cache,
                 optimisticUntil, now, shown, cmdTime>>

(***************************************************************************)
(* getSettings() of the tick's current button resolves: the tick reads     *)
(* the button's live target and enters updateState.                        *)
(***************************************************************************)
\* a slip: the tick works from the settings of the last lifecycle event
TickTargetSeen(c) == seen[c]

\* tick: const settings = await action.getSettings(); settings.target
TickTarget(c) == settings[c]

PollSettings(task) ==
  /\ BagIn(task, tasks)
  /\ task.op = "poll" /\ task.pc = "settings"
  /\ LET t == TickTarget(task.c)
         fetch == t # NoTarget /\ ~InHold(t)
     IN
     IF fetch
     THEN /\ tasks' = Add(Remove(tasks, task), [task EXCEPT !.pc = "fetch", !.t = t])
          /\ optimisticUntil' = IF kind \in HoldKinds
                                THEN [optimisticUntil EXCEPT ![t] = 0]
                                ELSE optimisticUntil
          /\ ev' = [Ev("pollSettings", task.c, t) EXCEPT
                      !.org = "poll", !.req = "getDeviceInfo"]
     ELSE /\ PollNext(task, Remove(tasks, task))
          /\ UNCHANGED optimisticUntil
          /\ ev' = [Ev("pollSettings", task.c, t) EXCEPT !.org = "poll"]
  /\ UNCHANGED <<seen, client, port, calc, dials, kind, buttons, visible, activeContexts, pollTimer, timers, settings, cache,
                 now, shown, cmdTime>>

(***************************************************************************)
(* The fetch awaited by the tick completes; the loop moves on.             *)
(***************************************************************************)
PollDone(task, r) ==
  /\ BagIn(task, tasks)
  /\ task.op = "poll" /\ task.pc = "fetch"
  /\ ApplyFetch(task.c, task.t, r)
  /\ PollNext(task, Remove(tasks, task))
  /\ ev' = [Ev("pollDone", task.c, task.t) EXCEPT
              !.org = "poll", !.res = r.res, !.rendered = FetchRenders(r),
              !.icon = FetchIcon(r), !.titled = TitlesOnFetch(task.c, r),
              !.absent = FetchAbsent(r), !.br = r.br, !.label = FetchLabel(task.c, r)]
  /\ UNCHANGED <<seen, client, port, calc, dials, kind, buttons, visible, activeContexts, pollTimer, timers, settings,
                 optimisticUntil, now, cmdTime>>

(***************************************************************************)
(* Time passes.  Only the lock and garage door controllers read the clock. *)
(***************************************************************************)
Advance ==
  /\ kind \in HoldKinds
  /\ now + TimeStep <= MaxTime
  /\ now' = now + TimeStep
  /\ ev' = Ev("advance", NoCtx, NoTarget)
  /\ UNCHANGED <<seen, client, port, calc, dials, kind, buttons, visible, activeContexts, pollTimer, timers, settings, cache,
                 optimisticUntil, shown, tasks, cmdTime>>

Next ==
  \/ \E c \in Ctx : WillAppear(c)
  \/ \E c \in Ctx : WillDisappear(c)
  \/ \E c \in Ctx, t \in Targets \cup {NoTarget} : DidReceiveSettings(c, t, port[c])
  \/ \E task \in BagToSet(tasks), r \in Responses(kind) : FetchDone(task, r)
  \/ \E c \in Ctx,
        hasLevel \in IF kind = "brightness" THEN BOOLEAN ELSE {TRUE},
        arm \in IF kind = "security" THEN ArmModes \cup {NoArm} ELSE {NoArm},
        tb \in IF kind = "light" THEN BOOLEAN ELSE {FALSE},
        dir \in IF kind = "blinds" THEN Directions ELSE {""} :
          KeyDown(c, hasLevel, arm, tb, dir)
  \/ \E task \in BagToSet(tasks), out \in Outcomes : KeyDownDone(task, out)
  \/ Tick
  \/ \E task \in BagToSet(tasks) : PollSettings(task)
  \/ \E task \in BagToSet(tasks), r \in Responses(kind) : PollDone(task, r)
  \/ Advance

Spec == Init /\ [][Next]_vars
SpecPair == InitPair /\ [][Next]_vars

(***************************************************************************)
(* Properties of the polling lifecycle.                                    *)
(***************************************************************************)
Succeeded == {"success", "partial"}

\* no onWillAppear is still waiting for its first fetch
NoAppearWaiting == \A task \in BagToSet(tasks) : task.op # "appear"

\* C1: in a polling controller the shared timer runs exactly when the set
\* of active contexts is non-empty.  Stated for the states in which every
\* onWillAppear has run to its end, where the claim asks least.
C1_TimerIffActive ==
  (kind \in PollingKinds /\ NoAppearWaiting) =>
     ((timers > 0) <=> (activeContexts # {}))

\* C2: after the buttons appeared exactly one timer is active, it stays
\* active while some button remains, and once every button has disappeared
\* no timer is left and the poll path fetches no device state.
C2_AppearDisappear ==
  (kind \in PollingKinds /\ NoAppearWaiting) =>
     IF activeContexts # {}
     THEN timers = 1
     ELSE /\ timers = 0
          /\ ~(ev.op \in {"pollSettings", "tick"} /\ ev.req = "getDeviceInfo")

\* C10: once the last button has disappeared the poll path starts no
\* device-state request and renders nothing, even for a tick that was in
\* the middle of its loop; only a request already sent may still complete.
C10_NoRequestAfterLastDisappear ==
  (kind \in PollingKinds /\ activeContexts = {} /\ ev.op = "pollSettings") =>
     (ev.req = "none" /\ ~ev.rendered)

(***************************************************************************)
(* Properties of the optimistic hold of lock and garage door.              *)
(***************************************************************************)
\* C3: for lock and garage door, a poll tick that reaches a target before
\* the hold expiry (time of the last successful command + 30000) issues no
\* request, starts no fetch and renders nothing; a tick that reaches it at
\* or after the expiry issues the request.
C3_PollRespectsHold ==
  [][ (/\ kind \in HoldKinds
       /\ ev'.op = "pollSettings"
       /\ ev'.t # NoTarget
       /\ cmdTime[ev'.t] >= 0)
      => IF now < cmdTime[ev'.t] + HOLD_MS
         THEN /\ ev'.req = "none"
              /\ \A task \in BagToSet(tasks') : ~(task.op = "poll" /\ task.pc = "fetch"
                                                   /\ ~BagIn(task, tasks))
              /\ UNCHANGED <<cache, shown, optimisticUntil>>
         ELSE /\ ev'.req = "getDeviceInfo"
              /\ \E task \in BagToSet(tasks') :
                    task.op = "poll" /\ task.pc = "fetch" /\ task.t = ev'.t ]_vars

\* a poll tick reached a target whose hold has not expired
C3_Witness ==
  /\ kind \in HoldKinds
  /\ ev.op = "pollSettings"
  /\ ev.t \in Targets
  /\ cmdTime[ev.t] >= 0
  /\ now < cmdTime[ev.t] + HOLD_MS
  /\ ev.t \in DOMAIN cache

\* C4: for lock and garage door, while the hold of a target has not
\* expired no completing fetch changes the target's cache entry or what a
\* button shows, a fetch issued before the KeyDown included.
C4_HoldProtects ==
  [][ (/\ kind \in HoldKinds
       /\ ev'.op \in {"fetchDone", "pollDone"}
       /\ ev'.t # NoTarget
       /\ Held(optimisticUntil[ev'.t], now))
      => UNCHANGED <<cache, shown>> ]_vars

(***************************************************************************)
(* Properties of onKeyDown.                                                *)
(***************************************************************************)
\* C5: a KeyDown whose settings have no target shows the failure indicator,
\* makes no network call and leaves cache and hold entries unchanged.
C5_NoTargetAlert ==
  [][ (ev'.op = "keyDown" /\ ev'.t = NoTarget)
      => /\ ev'.alert
         /\ ev'.req = "none"
         /\ UNCHANGED <<cache, optimisticUntil, tasks>> ]_vars

\* a button without a target was pressed while a cache entry existed
C5_Witness ==
  /\ ev.op = "keyDown"
  /\ ev.t = NoTarget
  /\ ev.alert
  /\ cache # NoSnap

\* C6: a KeyDown whose command ends with status "error", or throws, logs
\* the failure and shows the failure indicator, and leaves cache and hold
\* entries (and what the buttons show) unchanged.
C6_FailureLeavesState ==
  [][ /\ (ev'.op = "keyDownDone" /\ ev'.res \in {"error", "throw"})
         => /\ ev'.logged
            /\ ev'.alert
            /\ UNCHANGED <<cache, optimisticUntil, shown>>
      /\ ev'.op = "keyDown" => UNCHANGED <<cache, optimisticUntil, shown>> ]_vars

\* a command on a cached target ended with status "error"
C6_Witness ==
  /\ ev.op = "keyDownDone"
  /\ ev.res = "error"
  /\ ev.t \in DOMAIN cache
  /\ ev.alert

\* C7: in the nine controllers with a cache, a successful KeyDown that
\* found a cache entry for its target leaves the inverted state in the
\* cache and on the pressed button, and issues no device-state fetch.
C7_OptimisticUpdate ==
  (/\ kind \in CacheKinds
   /\ ev.op = "keyDownDone"
   /\ ev.res \in Succeeded
   /\ DOMAIN ev.basis # {})
  => /\ ev.t \in DOMAIN cache
     /\ StateBit(kind, cache[ev.t]) = 1 - StateBit(kind, ev.basis[ev.t])
     /\ shown[ev.c] = StateBit(kind, cache[ev.t])
     /\ ev.rendered
     /\ ev.req = "none"
     /\ \A task \in BagToSet(tasks) : task.op # "display"

\* a successful command turned a cached target on
C7_Witness ==
  /\ kind \in CacheKinds
  /\ ev.op = "keyDownDone"
  /\ ev.res = "success"
  /\ DOMAIN ev.basis # {}
  /\ StateBit(kind, ev.basis[ev.t]) = 0
  /\ shown[ev.c] = 1

\* C8 as written: in the nine controllers with a cache, a successful
\* KeyDown that found no cache entry renders nothing, creates no cache
\* entry and shows no failure indicator.
C8_NoEntryNoUpdateAll ==
  [][ (/\ kind \in CacheKinds
       /\ ev'.op = "keyDownDone"
       /\ ev'.res \in Succeeded
       /\ DOMAIN ev'.basis = {})
      => /\ UNCHANGED <<cache, shown>>
         /\ ~ev'.rendered
         /\ ~ev'.alert ]_vars

\* C8: in the controllers with a cache other than lock and garage door
\* (toggle, light, fan, humidifier, thermostat, security, group), a
\* successful KeyDown that found no cache entry renders nothing, creates no
\* cache entry and shows no failure indicator.
C8_NoEntryNoUpdate ==
  [][ (/\ kind \in CacheKinds \ HoldKinds
       /\ ev'.op = "keyDownDone"
       /\ ev'.res \in Succeeded
       /\ DOMAIN ev'.basis = {})
      => /\ UNCHANGED <<cache, shown>>
         /\ ~ev'.rendered
         /\ ~ev'.alert ]_vars

\* a successful command found no cache entry, and none exists afterwards
C8_Witness ==
  /\ kind \in CacheKinds \ HoldKinds
  /\ ev.op = "keyDownDone"
  /\ ev.res = "success"
  /\ DOMAIN ev.basis = {}
  /\ ev.t \notin DOMAIN cache
  /\ ev.c \in visible

\* C9: a successful KeyDown of the lock (garage door) on a target without
\* cache entry takes it for locked (closed): it stores unlocked (open),
\* shows state 0 (state 1) and records a hold of 30000 ms from now.
C9_AssumesLockedClosed ==
  [][ (/\ kind \in HoldKinds
       /\ ev'.op = "keyDownDone"
       /\ ev'.res \in Succeeded
       /\ ev'.t \notin DOMAIN cache)
      => /\ ev'.t \in DOMAIN cache'
         /\ cache'[ev'.t] = (IF kind = "garage" THEN "open" ELSE FALSE)
         /\ shown'[ev'.c] = (IF kind = "garage" THEN 1 ELSE 0)
         /\ optimisticUntil'[ev'.t] = now + HOLD_MS ]_vars

\* a lock or garage door command succeeded on a target never fetched
C9_Witness ==
  /\ kind \in HoldKinds
  /\ ev.op = "keyDownDone"
  /\ ev.res = "success"
  /\ DOMAIN ev.basis = {}
  /\ ev.t \in DOMAIN cache
  /\ optimisticUntil[ev.t] = now + HOLD_MS
  /\ now > 0

\* C11: when the only active button disappears while its onWillAppear is
\* still waiting for the initial fetch, no poll timer is running once that
\* onWillAppear has completed.
C11_NoTimerAfterLateAppear ==
  (/\ kind \in PollingKinds
   /\ ev.op = "fetchDone"
   /\ ev.org = "appear"
   /\ activeContexts = {})
  => (timers = 0 /\ ~pollTimer)

(***************************************************************************)
(* Properties of fetch-and-render.                                         *)
(***************************************************************************)
\* a fetch made by onWillAppear, onDidReceiveSettings or a poll tick came
\* back with a thrown error or with no device
FailedFetch(e) ==
  /\ kind \in PollingKinds
  /\ e.op \in {"fetchDone", "pollDone"}
  /\ e.org \in {"appear", "settings", "poll"}
  /\ e.res \in {"throw", "empty"}

\* C12 as written: in every controller a device-state fetch of a tick,
\* onWillAppear or onDidReceiveSettings that throws or returns no device
\* leaves the button's picture, title and state and the cache untouched,
\* shows no failure indicator and logs nothing.
C12_FailedFetchSilentAll ==
  [][ FailedFetch(ev')
      => /\ UNCHANGED <<cache, shown>>
         /\ ~ev'.rendered
         /\ ~ev'.alert
         /\ ~ev'.logged ]_vars

\* C12: such a failed fetch leaves the cache and the button state
\* untouched, shows no failure indicator and logs nothing; it makes no call
\* on the display handle either, except in the set-brightness controller,
\* whose updateDisplay sets the title again after a thrown error.
C12_FailedFetchSilent ==
  [][ FailedFetch(ev')
      => /\ UNCHANGED <<cache, shown>>
         /\ ev'.rendered <=> (kind = "brightness" /\ ev'.res = "throw")
         /\ ~ev'.alert
         /\ ~ev'.logged ]_vars

\* a poll fetch threw for a target that is cached and drawn as on
C12_Witness ==
  /\ FailedFetch(ev)
  /\ ev.op = "pollDone"
  /\ ev.res = "throw"
  /\ ev.t \in DOMAIN cache
  /\ shown[ev.c] = 1

\* a fetch on a key returned a device without its primary state field
AbsentFetch ==
  /\ kind \in CacheKinds \ {"group"}
  /\ ev.op \in {"fetchDone", "pollDone"}
  /\ ev.absent
  /\ ev.c \notin dials

\* C13 as written: a successful fetch without the primary state field
\* draws the default: toggle, light, fan, humidifier and thermostat off
\* (state 0), lock locked (state 1), garage door closed (state 0), security
\* disarmed (state 0, label "Off").
C13_AbsentDefaultsAll ==
  AbsentFetch =>
     /\ shown[ev.c] = (IF kind = "lock" THEN 1 ELSE 0)
     /\ kind = "security" => ev.label = "Off"

\* C13: as above, except that a light without `on` is drawn on (state 1)
\* when its brightness is present and above 0, and off otherwise.
C13_AbsentDefaults ==
  AbsentFetch =>
     /\ shown[ev.c] = (CASE kind = "lock" -> 1
                         [] kind = "light" -> (IF ev.br THEN 1 ELSE 0)
                         [] OTHER -> 0)
     /\ kind = "security" => ev.label = "Off"
     /\ cache[ev.t] = (CASE kind = "lock" -> TRUE
                         [] kind = "light" -> ev.br
                         [] kind = "garage" -> "closed"
                         [] kind = "security" -> SECURITY_DISARMED
                         [] OTHER -> FALSE)

\* a lock was fetched without `locked` while it was drawn unlocked before
C13_Witness ==
  /\ AbsentFetch
  /\ kind = "lock"
  /\ ev.op = "pollDone"
  /\ shown[ev.c] = 1
  /\ cmdTime[ev.t] >= 0

\* C14: in every polling controller an onWillAppear whose settings have a
\* target issues one device-state request for it, whatever the cache and
\* the hold map contain, and a successful answer is drawn on the button
\* before onWillAppear completes.
C14_AppearFetches ==
  /\ (kind \in PollingKinds /\ ev.op = "willAppear" /\ ev.t # NoTarget /\ ev.c \notin dials)
     => (/\ ev.req = "getDeviceInfo"
         /\ \E task \in BagToSet(tasks) :
               task.op = "appear" /\ task.c = ev.c /\ task.t = ev.t)
  /\ (kind \in PollingKinds /\ ev.op = "fetchDone" /\ ev.org = "appear" /\ ev.res = "ok")
     => ev.rendered

\* C15: onWillAppear of the garage door first draws closed (state 0) and
\* only then the fetched state; when the fetch throws or returns no device,
\* or no target is configured, it draws nothing else, and in each case it
\* ends with the poll timer started.  Stated for key buttons, the handle
\* type the handler is written for.
C15_GarageClosedFirst ==
  [][ /\ (kind = "garage" /\ ev'.op = "willAppear" /\ ev'.c \notin dials)
         => /\ shown'[ev'.c] = 0
            /\ ev'.rendered
            /\ ev'.t = NoTarget => ev'.req = "none"
            /\ ev'.req = "none" => (pollTimer' /\ timers' > 0)
      /\ (kind = "garage" /\ ev'.op = "fetchDone" /\ ev'.org = "appear"
          /\ ev'.c \notin dials)
         => /\ pollTimer' /\ timers' > 0
            /\ IF ev'.res = "ok"
               THEN shown'[ev'.c] = StateBit(kind, cache'[ev'.t])
               ELSE UNCHANGED shown /\ ~ev'.rendered ]_vars

\* the first fetch of a garage door button threw: closed stays, timer runs
C15_Witness ==
  /\ kind = "garage"
  /\ ev.op = "fetchDone"
  /\ ev.org = "appear"
  /\ ev.res = "throw"
  /\ ev.c \in visible \ dials
  /\ shown[ev.c] = 0
  /\ pollTimer

C17_TickSkipsAll ==
  (ev.op = "pollSettings" /\ (ev.c \in dials \/ ev.t = NoTarget))
  => (ev.req = "none" /\ ~ev.rendered)

\* C17: in a tick a button whose live settings have no target causes no
\* request and no render; a button without setState is skipped by the nine
\* controllers that draw with setState, but polled like any other by
\* status, blinds and set-brightness; every button the tick reaches that
\* has a target not under a hold gets one request.
C17_TickSkips ==
  [][ ev'.op = "pollSettings"
         => /\ kind \notin {"status", "blinds", "brightness"} => ev'.c \notin dials
            /\ IF ev'.t = NoTarget \/ (kind \in HoldKinds /\ now < optimisticUntil[ev'.t])
               THEN /\ ev'.req = "none"
                    /\ ~ev'.rendered
                    /\ UNCHANGED <<cache, shown>>
                    /\ \A task \in BagToSet(tasks') : task.pc = "fetch" => BagIn(task, tasks)
               ELSE /\ ev'.req = "getDeviceInfo"
                    /\ BagCardinality(tasks') = BagCardinality(tasks)
                    /\ \E task \in BagToSet(tasks') :
                          /\ task.op = "poll" /\ task.pc = "fetch"
                          /\ task.c = ev'.c /\ task.t = ev'.t
                          /\ CopiesIn(task, tasks') = CopiesIn(task, tasks) + 1 ]_vars

\* a tick fired while the only visible button has no setState: it is skipped
C17_Witness ==
  /\ kind \in CacheKinds
  /\ ev.op = "tick"
  /\ visible # {}
  /\ visible \subseteq dials
  /\ \A c \in visible : settings[c] # NoTarget
  /\ tasks = EmptyBag

(***************************************************************************)
(* A server that never answers the requests made for one button and        *)
(* answers every other request with a device.  Both buttons stay visible.  *)
(* A handler waiting for a request that is never answered never resumes:   *)
(* a tick in that position is dropped from `tasks`.                        *)
(***************************************************************************)
Hung == "c1"
HangKinds == {"toggle", "status"}

InitHang ==
  /\ kind \in HangKinds
  /\ buttons = Ctx
  /\ dials = {}
  /\ Start

\* getSettings() resolves for the tick's button; its getDeviceInfo is sent
\* and never answered
PollSettingsHung(task) ==
  /\ BagIn(task, tasks)
  /\ task.op = "poll" /\ task.pc = "settings"
  /\ task.c = Hung
  /\ TickTarget(task.c) # NoTarget
  /\ tasks' = Remove(tasks, task)
  /\ ev' = [Ev("pollSettings", task.c, TickTarget(task.c)) EXCEPT
              !.org = "poll", !.req = "getDeviceInfo"]
  /\ UNCHANGED <<seen, client, port, calc, dials, kind, buttons, visible, activeContexts, pollTimer, timers,
                 settings, cache, optimisticUntil, now, shown, cmdTime>>

PollSettingsLive(task) ==
  /\ task.c # Hung \/ TickTarget(task.c) = NoTarget
  /\ PollSettings(task)

Answered(task, r) == task.c # Hung /\ r.res = "ok"

NextHang ==
  \/ \E c \in Ctx : WillAppear(c)
  \/ \E task \in BagToSet(tasks), r \in Responses(kind) :
        Answered(task, r) /\ FetchDone(task, r)
  \/ Tick
  \/ \E task \in BagToSet(tasks) : PollSettingsHung(task)
  \/ \E task \in BagToSet(tasks) : PollSettingsLive(task)
  \/ \E task \in BagToSet(tasks), r \in Responses(kind) :
        Answered(task, r) /\ PollDone(task, r)

\* setInterval keeps firing while the timer lives, getSettings() resolves,
\* and the server answers the requests of the other button
SpecHang ==
  /\ InitHang
  /\ [][NextHang]_vars
  /\ WF_vars(\E c \in Ctx : WillAppear(c))
  /\ WF_vars(Tick)
  /\ WF_vars(\E task \in BagToSet(tasks) : PollSettingsHung(task))
  /\ WF_vars(\E task \in BagToSet(tasks) : PollSettingsLive(task))
  /\ WF_vars(\E task \in BagToSet(tasks), r \in Responses(kind) :
                Answered(task, r) /\ FetchDone(task, r))
  /\ WF_vars(\E task \in BagToSet(tasks), r \in Responses(kind) :
                Answered(task, r) /\ PollDone(task, r))

\* C18: while the controller is polling two visible buttons with targets,
\* one whose requests are never answered and one whose requests always
\* succeed, the second is still eventually fetched and drawn by a tick.
C18_HangDoesNotBlock ==
  (/\ visible = Ctx
   /\ timers > 0
   /\ \A c \in Ctx : settings[c] # NoTarget)
  ~> (ev.op = "pollDone" /\ ev.c # Hung /\ ev.res = "ok" /\ ev.rendered)

(***************************************************************************)
(* The presentation functions of the controllers, applied to inputs        *)
(* chosen freely: the title handed to setTitle, and the aggregation of a   *)
(* group's member list.                                                    *)
(***************************************************************************)
MaxMembers == 3      \* longest member list explored

Labels == {"", "Office"}             \* settings.label, undefined taken as ""
SceneNames == {"", "Movie"}          \* settings.scene
\* the controllers that call setTitle, and where they do so
TitleKinds == {"toggle", "status", "brightness", "group", "light", "humidifier", "blinds",
               "thermostat", "fan", "security", "scene"}
TitlePaths(k) ==
  CASE k \in {"toggle", "group", "light", "humidifier", "fan", "security"} ->
         {"fetch", "keydown"}
    [] k = "brightness" -> {"fetch", "catch"}
    [] k = "scene" -> {"appear", "settings"}
    [] OTHER -> {"fetch"}
\* the value strings a controller can arrive at
TitleValues(k) ==
  CASE k = "security" -> {SecurityLabel(v) : v \in SecurityStates \cup {5}}
    [] k = "brightness" -> {"50%"}
    [] k = "group" -> {"", "2/3"}
    [] k = "thermostat" -> {"", "23/24"}
    [] k = "fan" -> {"", "50"}
    [] k \in {"toggle", "scene"} -> {""}
    [] OTHER -> {"", "50%"}

\* a slip: the value is appended without looking at it
TitleOfUnchecked(k, label, value, name) ==
  IF label # "" THEN label \o "\n" \o value ELSE value

\* the expression each controller hands to setTitle
TitleOf(k, label, value, name) ==
  CASE k = "security" -> IF label # "" THEN label \o "\n" \o value ELSE value
    [] k = "scene" -> IF label # "" THEN label ELSE name
    [] OTHER -> IF label # "" /\ value # "" THEN label \o "\n" \o value
                ELSE IF label # "" THEN label ELSE value

\* the arguments a title is composed from
TitleArgs ==
  IF kind \in TitleKinds
  THEN {[fn |-> "titleArgs", path |-> p, label |-> l, value |-> v, name |-> n] :
          p \in TitlePaths(kind), l \in Labels, v \in TitleValues(kind),
          n \in IF kind = "scene" THEN SceneNames ELSE {""}}
  ELSE {}

ComposeTitle ==
  /\ calc.fn = "titleArgs"
  /\ calc' = [fn |-> "title", path |-> calc.path, label |-> calc.label, value |-> calc.value,
              name |-> calc.name,
              title |-> TitleOf(kind, calc.label, calc.value, calc.name)]
  /\ UNCHANGED <<seen, client, port, dials, kind, buttons, visible, activeContexts, pollTimer, timers, settings,
                 cache, optimisticUntil, now, shown, tasks, cmdTime, ev>>

\* a device of the answer: whether it has a state, its `on` and its brightness
\* (-1: no brightness field)
Members ==
  {[state |-> FALSE, on |-> "absent", br |-> -1]}
  \cup [state : {TRUE}, on : {"true", "false", "absent"}, br : {-1, 0, 80}]
MemberLists == UNION {[1 .. n -> Members] : n \in 0 .. MaxMembers}

\* a slip: brightness is not consulted
MemberOnStrict(m) == m.state /\ m.on = "true"

\* state?.on ?? (state?.brightness != null && state.brightness > 0)
MemberOn(m) ==
  IF m.state /\ m.on # "absent" THEN m.on = "true"
  ELSE m.state /\ m.br # -1 /\ m.br > 0

RECURSIVE OnCount(_)
\* the loop of updateState: if (deviceOn) onCount++
OnCount(devices) ==
  IF devices = << >> THEN 0
  ELSE (IF MemberOn(Head(devices)) THEN 1 ELSE 0) + OnCount(Tail(devices))

\* buildCountString
BuildCountString(onCount, totalCount) ==
  IF totalCount = 0 THEN ""
  ELSE IF onCount = 0 THEN ""
  ELSE IF onCount = totalCount THEN ""
  ELSE ToString(onCount) \o "/" \o ToString(totalCount)

\* the answers to a group's request: a bare device or an array
GroupArgs ==
  IF kind = "group"
  THEN {[fn |-> "groupArgs", bare |-> TRUE, info |-> m] : m \in Members}
       \cup {[fn |-> "groupArgs", bare |-> FALSE, info |-> l] : l \in MemberLists}
  ELSE {}

\* GroupAction.updateState from the answer on
Aggregate ==
  /\ calc.fn = "groupArgs"
  /\ LET devices == IF calc.bare THEN <<calc.info>> ELSE calc.info
         onCount == OnCount(devices)
         totalCount == Len(devices)
     IN
     calc' = [fn |-> "group", bare |-> calc.bare, devices |-> devices,
              cached |-> (Len(devices) # 0),
              onCount |-> onCount, totalCount |-> totalCount,
              isOn |-> (onCount > 0),
              countStr |-> BuildCountString(onCount, totalCount)]
  /\ UNCHANGED <<seen, client, port, dials, kind, buttons, visible, activeContexts, pollTimer, timers, settings,
                 cache, optimisticUntil, now, shown, tasks, cmdTime, ev>>

(***************************************************************************)
(* GroupAction.onKeyDown as a function of what it reads: the cache entry   *)
(* it takes before the command (cached, has = FALSE when there is none),   *)
(* the label, and the command's outcome.  The handler reads the cache once,*)
(* before its only await, and works from that entry afterwards.            *)
(***************************************************************************)
NoGroupEntry == [has |-> FALSE, isOn |-> FALSE, onCount |-> 0, totalCount |-> 0]
\* the entries updateState and onKeyDown write: { isOn, onCount, totalCount }
GroupEntries ==
  {[has |-> TRUE, isOn |-> (p[1] > 0), onCount |-> p[1], totalCount |-> p[2]] :
     p \in {q \in (0 .. MaxMembers) \X (1 .. MaxMembers) : q[1] <= q[2]}}

GroupPressArgs ==
  IF kind = "group"
  THEN [fn : {"groupPressArgs"}, cached : GroupEntries \cup {NoGroupEntry},
        label : Labels, out : Outcomes]
  ELSE {}

\* a slip: a partially-on group is taken for off
ShouldTurnOnPartial(cached) == ~(cached.has /\ cached.onCount = cached.totalCount)

\* const shouldTurnOn = !cached?.isOn
ShouldTurnOn(cached) == ~(cached.has /\ cached.isOn)

GroupKeyDown ==
  /\ calc.fn = "groupPressArgs"
  /\ LET cached == calc.cached
         shouldTurnOn == ShouldTurnOn(cached)
         req == IF shouldTurnOn THEN "turnOn" ELSE "turnOff"
         newOnCount == IF shouldTurnOn THEN cached.totalCount ELSE 0
         countStr == BuildCountString(newOnCount, cached.totalCount)
         base == [fn |-> "groupPress", cached |-> cached, label |-> calc.label,
                  out |-> calc.out, req |-> req, entry |-> cached, rendered |-> FALSE,
                  countStr |-> "", title |-> "", alert |-> FALSE, logged |-> FALSE]
     IN
     calc' = IF CommandFailed(calc.out)
             THEN [base EXCEPT !.alert = TRUE, !.logged = TRUE]
             ELSE IF cached.has
             THEN [base EXCEPT
                     !.entry = [cached EXCEPT !.isOn = shouldTurnOn, !.onCount = newOnCount],
                     !.rendered = TRUE, !.countStr = countStr,
                     !.title = TitleOf(kind, calc.label, countStr, "")]
             ELSE base
  /\ UNCHANGED <<seen, client, port, dials, kind, buttons, visible, activeContexts, pollTimer, timers, settings,
                 cache, optimisticUntil, now, shown, tasks, cmdTime, ev>>

(***************************************************************************)
(* ItsyhomeClient: what a call makes of the HTTP response it is given.     *)
(***************************************************************************)
Operations == {"listDevices", "listScenes", "listGroups", "getDeviceInfo", "toggle",
               "turnOn", "turnOff", "setBrightness", "setPosition", "executeScene",
               "isAvailable"}
StatusCodes == {200, 201, 299, 300, 400, 404, 500}   \* response.status
\* response bodies: the text and, when it is JSON, what it parses to
Bodies ==
  {[raw |-> "{\"status\":\"success\"}", json |-> TRUE, parsed |-> "success"],
   [raw |-> "{\"status\":\"partial\"}", json |-> TRUE, parsed |-> "partial"],
   [raw |-> "{\"status\":\"error\"}", json |-> TRUE, parsed |-> "error"],
   [raw |-> "[]", json |-> TRUE, parsed |-> "empty"],
   [raw |-> "Not found", json |-> FALSE, parsed |-> ""]}

\* a slip: only 200 counts as success
ResponseOk200(code) == code = 200

\* response.ok: the status is in the range 200-299
ResponseOk(code) == code >= 200 /\ code <= 299

NoResult == [outcome |-> "", value |-> "", error |-> "", statusCode |-> 0, body |-> ""]

\* ItsyhomeClient.get
Get(code, body) ==
  IF ~ResponseOk(code)
  THEN [NoResult EXCEPT !.outcome = "throw", !.error = "ItsyhomeApiError",
                        !.statusCode = code, !.body = body.raw]
  ELSE IF body.json
  THEN [NoResult EXCEPT !.outcome = "return", !.value = body.parsed]
  ELSE [NoResult EXCEPT !.outcome = "throw", !.error = "SyntaxError"]   \* response.json() rejects

\* isAvailable: try { await this.get("/status"); return true } catch { return false }
IsAvailable(code, body) ==
  [NoResult EXCEPT !.outcome = "return",
                   !.value = IF Get(code, body).outcome = "return" THEN "true" ELSE "false"]

CallArgs == [fn : {"callArgs"}, op : Operations, code : StatusCodes, resp : Bodies]

ClientCall ==
  /\ calc.fn = "callArgs"
  /\ calc' = [fn |-> "call", op |-> calc.op, code |-> calc.code, resp |-> calc.resp,
              result |-> IF calc.op = "isAvailable"
                         THEN IsAvailable(calc.code, calc.resp)
                         ELSE Get(calc.code, calc.resp)]
  /\ UNCHANGED <<seen, client, port, dials, kind, buttons, visible, activeContexts, pollTimer, timers, settings,
                 cache, optimisticUntil, now, shown, tasks, cmdTime, ev>>

(***************************************************************************)
(* Request paths.  A string is a sequence of characters; a route name      *)
(* ("info", "toggle") and a number stand as one element each.              *)
(***************************************************************************)
MaxLen == 3      \* longest target explored

\* characters a target is made of: a letter, a space, a slash, a percent
\* sign and a letter outside ASCII (two bytes in UTF-8)
Chars == {"a", " ", "/", "%", "e-acute"}
Strings == UNION {[1 .. n -> Chars] : n \in 1 .. MaxLen}
Hex == <<"0", "1", "2", "3", "4", "5", "6", "7", "8", "9", "A", "B", "C", "D", "E", "F">>

\* the UTF-8 bytes of a character
Utf8(ch) ==
  CASE ch = "a" -> <<97>>
    [] ch = " " -> <<32>>
    [] ch = "/" -> <<47>>
    [] ch = "%" -> <<37>>
    [] ch = "e-acute" -> <<195, 169>>

\* a slip: encodeURI for encodeURIComponent, which leaves the slash alone
UnreservedURI(ch) == ch \in {"a", "/"}

\* encodeURIComponent escapes everything but A-Z a-z 0-9 - _ . ! ~ * ' ( )
Unreserved(ch) == ch = "a"

EscapeByte(b) == <<"%", Hex[(b \div 16) + 1], Hex[(b % 16) + 1]>>

RECURSIVE EscapeBytes(_)
EscapeBytes(bytes) ==
  IF bytes = << >> THEN << >>
  ELSE EscapeByte(Head(bytes)) \o EscapeBytes(Tail(bytes))

RECURSIVE EncodeURIComponent(_)
EncodeURIComponent(s) ==
  IF s = << >> THEN << >>
  ELSE (IF Unreserved(Head(s)) THEN <<Head(s)>> ELSE EscapeBytes(Utf8(Head(s))))
       \o EncodeURIComponent(Tail(s))

\* the operations that put a target (a room, a scene name) into the path
TargetOperations == {"listDevices", "getDeviceInfo", "toggle", "turnOn", "turnOff",
                     "setBrightness", "setPosition", "executeScene"}

\* the path each operation hands to get
RequestPath(op, target, n) ==
  LET enc == EncodeURIComponent(target) IN
  CASE op = "listDevices" -> <<"/", "list", "/", "devices", "/">> \o enc
    [] op = "getDeviceInfo" -> <<"/", "info", "/">> \o enc
    [] op = "toggle" -> <<"/", "toggle", "/">> \o enc
    [] op = "turnOn" -> <<"/", "on", "/">> \o enc
    [] op = "turnOff" -> <<"/", "off", "/">> \o enc
    [] op = "setBrightness" -> <<"/", "brightness", "/", ToString(n), "/">> \o enc
    [] op = "setPosition" -> <<"/", "position", "/", ToString(n), "/">> \o enc
    [] op = "executeScene" -> <<"/", "scene", "/">> \o enc

PathArgs == [fn : {"pathArgs"}, op : TargetOperations, target : Strings, n : {50}]

BuildPath ==
  /\ calc.fn = "pathArgs"
  /\ calc' = [fn |-> "path", op |-> calc.op, target |-> calc.target,
              path |-> RequestPath(calc.op, calc.target, calc.n)]
  /\ UNCHANGED <<seen, client, port, dials, kind, buttons, visible, activeContexts, pollTimer, timers, settings,
                 cache, optimisticUntil, now, shown, tasks, cmdTime, ev>>

(***************************************************************************)
(* LightAction.onKeyDown (the revision with a target brightness) as a      *)
(* function of what it reads: the cache entry it takes before the command, *)
(* settings.targetBrightness, settings.showBrightness, the label and the   *)
(* command's outcome.                                                      *)
(***************************************************************************)
NoBrightness == -1                   \* brightness / targetBrightness undefined
Brightnesses == {0, 40, 100}
NoLightEntry == [has |-> FALSE, isOn |-> FALSE, brightness |-> NoBrightness]
\* the entries updateState and onKeyDown write: { isOn, brightness, icon }
LightEntries ==
  [has : {TRUE}, isOn : BOOLEAN, brightness : Brightnesses \cup {NoBrightness}]

LightPressArgs ==
  IF kind = "light"
  THEN [fn : {"lightPressArgs"}, cached : LightEntries \cup {NoLightEntry},
        targetBrightness : Brightnesses \cup {NoBrightness},
        showBrightness : BOOLEAN, label : Labels, out : Outcomes]
  ELSE {}

\* a slip: truthiness for != null, a target brightness of 0 counts as not set
TargetBrightnessTruthy(tb) == tb # NoBrightness /\ tb # 0

\* targetBrightness != null
TargetBrightnessSet(tb) == tb # NoBrightness

LightKeyDown ==
  /\ calc.fn = "lightPressArgs"
  /\ LET cached == calc.cached
         tb == calc.targetBrightness
         direct == TargetBrightnessSet(tb) /\ cached.has
         req == IF direct THEN (IF cached.isOn THEN "turnOff" ELSE "setBrightness")
                ELSE "toggle"
         arg == IF req = "setBrightness" THEN tb ELSE NoArg
         newIsOn == IF direct THEN ~cached.isOn
                    ELSE IF cached.has THEN ~cached.isOn ELSE TRUE
         newBrightness == IF direct THEN (IF cached.isOn THEN 0 ELSE tb)
                          ELSE cached.brightness
         brightnessStr == IF calc.showBrightness /\ newIsOn /\ newBrightness # NoBrightness
                          THEN ToString(newBrightness) \o "%"
                          ELSE ""
         base == [fn |-> "lightPress", cached |-> cached, targetBrightness |-> tb,
                  showBrightness |-> calc.showBrightness, label |-> calc.label,
                  out |-> calc.out, req |-> req, arg |-> arg, entry |-> cached,
                  rendered |-> FALSE, state |-> -1, title |-> "", alert |-> FALSE,
                  logged |-> FALSE]
     IN
     calc' = IF CommandFailed(calc.out)
             THEN [base EXCEPT !.alert = TRUE, !.logged = TRUE]
             ELSE IF cached.has
             THEN [base EXCEPT
                     !.entry = [cached EXCEPT !.isOn = newIsOn, !.brightness = newBrightness],
                     !.rendered = TRUE, !.state = StateBit(kind, newIsOn),
                     !.title = TitleOf(kind, calc.label, brightnessStr, "")]
             ELSE base
  /\ UNCHANGED <<seen, client, port, dials, kind, buttons, visible, activeContexts, pollTimer, timers, settings,
                 cache, optimisticUntil, now, shown, tasks, cmdTime, ev>>

InitPure ==
  /\ kind \in Kinds
  /\ buttons = {"c1"}
  /\ dials = {}
  /\ Fresh
  /\ port = [c \in Ctx |-> NoPort]
  /\ calc \in TitleArgs \cup GroupArgs \cup GroupPressArgs \cup CallArgs \cup PathArgs \cup LightPressArgs

NextPure ==
  \/ ComposeTitle
  \/ Aggregate
  \/ GroupKeyDown
  \/ ClientCall
  \/ BuildPath
  \/ LightKeyDown

SpecPure == InitPure /\ [][NextPure]_vars

\* the title the rule gives for a label and a value string
RuleTitle(label, value) ==
  IF label # "" /\ value # "" THEN label \o "\n" \o value
  ELSE IF label # "" THEN label
  ELSE IF value # "" THEN value
  ELSE ""

\* C19 as stated: every controller that sets a title composes it by the rule --
\* label and value both non-empty give label, newline, value; only the label
\* gives the label; only the value gives the value; neither gives the empty
\* title -- on the fetch path as on the optimistic KeyDown path.
C19_TitleRuleAll ==
  calc.fn = "title" => calc.title = RuleTitle(calc.label, calc.value)

\* C19, amended: every controller but the scene controller composes each title
\* it sets by the rule, on every path that sets one; the scene controller,
\* which has no value string, shows the label and, without a label, the name
\* of the scene.
C19_TitleRule ==
  calc.fn = "title" =>
    IF kind = "scene"
    THEN calc.title = (IF calc.label # "" THEN calc.label ELSE calc.name)
    ELSE calc.title = RuleTitle(calc.label, calc.value)

C19_Witness ==
  /\ calc.fn = "title"
  /\ kind = "light"
  /\ calc.path = "keydown"
  /\ calc.label = "Office"
  /\ calc.value = "50%"
  /\ calc.title = "Office\n50%"

\* a member counts as on when `on` is true, or `on` is absent and the
\* brightness is above zero; without a state it is off
CountsAsOn(m) ==
  /\ m.state
  /\ \/ m.on = "true"
     \/ m.on = "absent" /\ m.br > 0

\* C20: the group is on exactly when at least one member counts as on; the
\* count string is "{on}/{total}" exactly when 0 < on < total and empty
\* otherwise; a bare single-device answer is a group of one member.
C20_GroupAggregation ==
  (calc.fn = "group" /\ calc.cached) =>
    LET total == Len(calc.devices)
        on == Cardinality({i \in 1 .. total : CountsAsOn(calc.devices[i])})
    IN
    /\ calc.onCount = on
    /\ calc.totalCount = total
    /\ calc.isOn = (on >= 1)
    /\ calc.countStr = (IF 0 < on /\ on < total
                        THEN ToString(on) \o "/" \o ToString(total) ELSE "")
    /\ calc.bare => (total = 1 /\ calc.countStr = "" /\ calc.isOn = CountsAsOn(calc.devices[1]))

C20_Witness ==
  /\ calc.fn = "group"
  /\ calc.countStr = "2/3"
  /\ \E i \in 1 .. Len(calc.devices) :
       calc.devices[i].on = "absent" /\ calc.devices[i].br > 0
  /\ \E i \in 1 .. Len(calc.devices) : ~calc.devices[i].state

\* C21: GroupAction.onKeyDown sends turnOff, never turnOn, when the cached
\* group state is on, a partially-on group included, and turnOn, never
\* turnOff, when it is off or there is no entry; on success with an entry the
\* cached on-count becomes the total (turned on) or 0 (turned off), and the
\* count string rendered is empty.
C21_GroupPress ==
  calc.fn = "groupPress" =>
    LET cached == calc.cached
        wasOn == cached.has /\ cached.onCount >= 1
    IN
    /\ calc.req = (IF wasOn THEN "turnOff" ELSE "turnOn")
    /\ (calc.out \in Succeeded /\ cached.has) =>
         /\ calc.entry.onCount = (IF wasOn THEN 0 ELSE cached.totalCount)
         /\ calc.entry.totalCount = cached.totalCount
         /\ calc.entry.isOn = ~wasOn
         /\ calc.rendered
         /\ calc.countStr = ""
         /\ calc.title = calc.label

C21_Witness ==
  /\ calc.fn = "groupPress"
  /\ calc.cached.has
  /\ calc.cached.onCount = 1
  /\ calc.cached.totalCount = MaxMembers
  /\ calc.out = "success"
  /\ calc.req = "turnOff"
  /\ calc.entry.onCount = 0

(***************************************************************************)
(* Commands of the security system controller.                             *)
(***************************************************************************)
\* C22: SecuritySystemAction.onKeyDown arms with the configured mode (Away
\* when none is configured) when the cached state is disarmed or there is no
\* entry, and disarms for every other cached state; on success with an entry
\* the cached state becomes the arm mode, respectively disarmed, and is
\* rendered with the matching label.
C22_ArmOrDisarm ==
  [][/\ (kind = "security" /\ ev'.op = "keyDown" /\ ev'.req # "none") =>
          LET snap == Snap(ev'.t) IN
          IF DOMAIN snap = {} \/ snap[ev'.t] = SECURITY_DISARMED
          THEN /\ ev'.req = "armSecurity"
               /\ ev'.arg = (IF ev'.arm = NoArm THEN SECURITY_AWAY_ARM ELSE ev'.arm)
          ELSE ev'.req = "disarmSecurity"
     /\ (/\ kind = "security" /\ ev'.op = "keyDownDone"
         /\ ev'.res \in Succeeded /\ DOMAIN ev'.basis # {}) =>
          LET new == IF ev'.basis[ev'.t] = SECURITY_DISARMED
                     THEN ev'.arg ELSE SECURITY_DISARMED
          IN
          /\ cache'[ev'.t] = new
          /\ ev'.rendered
          /\ shown'[ev'.c] = (IF new = SECURITY_DISARMED THEN 0 ELSE 1)
          /\ ev'.label = SecurityLabel(new)
    ]_vars

\* armed to Stay (0) from a cached disarmed state
C22_Witness ==
  /\ kind = "security"
  /\ ev.op = "keyDownDone"
  /\ ev.res = "success"
  /\ DOMAIN ev.basis # {}
  /\ ev.basis[ev.t] = SECURITY_DISARMED
  /\ ev.arg = 0
  /\ cache[ev.t] = 0
  /\ ev.label = "Stay"

(***************************************************************************)
(* Failed commands.                                                        *)
(***************************************************************************)
\* C23: for the toggle and thermostat controllers a failed KeyDown command
\* (status "error" or a thrown error) sets the button's integer state back to
\* the cached on/off value, so the state shown after the failure is the
\* cached one.
C23_FailureReverts ==
  [][(/\ kind \in {"toggle", "thermostat"}
      /\ ev'.op = "keyDownDone"
      /\ CommandFailed(ev'.res)) =>
       /\ ev'.rendered
       /\ shown'[ev'.c] = (IF ev'.t \in DOMAIN cache' /\ cache'[ev'.t] THEN 1 ELSE 0)
    ]_vars

(***************************************************************************)
(* The scene controller.                                                   *)
(***************************************************************************)
\* C24: ExecuteSceneAction never creates a poll timer and keeps no cached
\* state; it issues requests only in WillAppear and DidReceiveSettings (one
\* scene-catalog lookup each when a scene is set) and in KeyDown (one
\* executeScene); when the catalog call fails the default sparkle icon is
\* rendered; a successful execute shows the success indicator.
C24_SceneFireOnce ==
  [][kind = "scene" =>
       /\ ~pollTimer' /\ timers' = 0
       /\ cache' = NoSnap
       /\ ev'.req # "none" =>
            \/ /\ ev'.op \in {"willAppear", "didReceiveSettings"}
               /\ ev'.req = "listScenes"
            \/ ev'.op = "keyDown" /\ ev'.req = "executeScene"
       /\ ev'.op \in {"willAppear", "didReceiveSettings"} =>
            (ev'.req = "listScenes" <=> ev'.t # NoTarget)
       /\ (ev'.op = "fetchDone" /\ ev'.res = "throw") =>
            (ev'.rendered /\ ev'.icon = "sparkle")
       /\ (ev'.op = "keyDownDone" /\ ev'.res \in Succeeded) => ev'.ok
    ]_vars

\* the catalog call made by WillAppear failed and the sparkle was drawn
C24_Witness ==
  /\ kind = "scene"
  /\ ev.op = "fetchDone"
  /\ ev.org = "appear"
  /\ ev.res = "throw"
  /\ ev.icon = "sparkle"
  /\ timers = 0

\* C25: ExecuteSceneAction.onWillAppear and onDidReceiveSettings do not set
\* the button title when no scene is configured.
C25_NoTitleWithoutScene ==
  [][(/\ kind = "scene"
      /\ ev'.op \in {"willAppear", "didReceiveSettings"}
      /\ ev'.t = NoTarget) => ~ev'.titled]_vars

(***************************************************************************)
(* The blinds controller.                                                  *)
(***************************************************************************)
\* C26: BlindsAction.onKeyDown with a target but no direction configured
\* shows the failure indicator and sends nothing; with direction "open" it
\* commands position 100 and with "close" position 0, and shows the success
\* indicator on success.
C26_BlindsDirection ==
  [][kind = "blinds" =>
       /\ (ev'.op = "keyDown" /\ ev'.t # NoTarget) =>
            CASE ev'.dir = "open" -> ev'.req = "setPosition" /\ ev'.arg = 100
              [] ev'.dir = "close" -> ev'.req = "setPosition" /\ ev'.arg = 0
              [] OTHER -> ev'.alert /\ ev'.req = "none"
       /\ (ev'.op = "keyDownDone" /\ ev'.res \in Succeeded) => ev'.ok
    ]_vars

(***************************************************************************)
(* The status controller.                                                  *)
(***************************************************************************)
\* the client calls that change a device
Mutating == {"toggle", "turnOn", "turnOff", "setBrightness", "setPosition",
             "executeScene", "armSecurity", "disarmSecurity"}

\* C27: StatusAction is read-only: whatever events are delivered to it, it
\* never issues a mutating command; its only requests are device-state
\* fetches.
C27_StatusReadOnly ==
  [][kind = "status" =>
       /\ ev'.req \notin Mutating
       /\ ev'.req \in {"none", "getDeviceInfo"}
       /\ ev'.op \notin {"keyDown", "keyDownDone"}
    ]_vars

\* the status controller polls and draws like the others
C27_Witness ==
  /\ kind = "status"
  /\ ev.op = "pollDone"
  /\ ev.res = "ok"
  /\ ev.rendered
  /\ pollTimer

(***************************************************************************)
(* The client.                                                             *)
(***************************************************************************)
\* what the claim says of a call: the parsed body on 2xx, a status of "error"
\* included, and the typed error with the status code and the raw body
\* otherwise
ReturnsOrRaises(c) ==
  IF c.code \in 200 .. 299
  THEN c.resp.json => (c.result.outcome = "return" /\ c.result.value = c.resp.parsed)
  ELSE /\ c.result.outcome = "throw"
       /\ c.result.error = "ItsyhomeApiError"
       /\ c.result.statusCode = c.code
       /\ c.result.body = c.resp.raw

\* C28 as stated: every client call returns the parsed body on an HTTP 2xx
\* response, a body whose status is "error" included, and raises the typed
\* API error carrying the status code and the raw body on any other response.
C28_ClientOutcomesAll ==
  calc.fn = "call" => ReturnsOrRaises(calc)

\* C28, amended: every client call but isAvailable does so (for a 2xx body
\* that parses as JSON); isAvailable returns true on a 2xx response and false
\* on any failure, and never raises.
C28_ClientOutcomes ==
  calc.fn = "call" =>
    IF calc.op = "isAvailable"
    THEN /\ calc.result.outcome = "return"
         /\ calc.result.value = "true" <=> (calc.code \in 200 .. 299 /\ calc.resp.json)
         /\ calc.result.value \in {"true", "false"}
    ELSE ReturnsOrRaises(calc)

\* a 2xx answer with status "error" is returned, not raised
C28_Witness ==
  /\ calc.fn = "call"
  /\ calc.op = "toggle"
  /\ calc.code = 201
  /\ calc.resp.parsed = "error"
  /\ calc.result.outcome = "return"
  /\ calc.result.value = "error"

\* the part of a path after its last slash
LastSegment(path) ==
  LET slashes == {i \in 1 .. Len(path) : path[i] = "/"}
      last == CHOOSE i \in slashes : \A j \in slashes : j <= i
  IN SubSeq(path, last + 1, Len(path))

HexValue(d) == IF \E i \in 1 .. 16 : Hex[i] = d
               THEN (CHOOSE i \in 1 .. 16 : Hex[i] = d) - 1 ELSE -1

RECURSIVE UnescapeBytes(_)
\* percent-decoding, to bytes; -1 marks a malformed escape
UnescapeBytes(s) ==
  IF s = << >> THEN << >>
  ELSE IF Head(s) = "%"
  THEN IF Len(s) >= 3 /\ HexValue(s[2]) >= 0 /\ HexValue(s[3]) >= 0
       THEN <<HexValue(s[2]) * 16 + HexValue(s[3])>> \o UnescapeBytes(SubSeq(s, 4, Len(s)))
       ELSE <<-1>>
  ELSE Utf8(Head(s)) \o UnescapeBytes(Tail(s))

RECURSIVE FromUtf8(_)
\* bytes back to characters; "?" for what is not a character
FromUtf8(bytes) ==
  IF bytes = << >> THEN << >>
  ELSE IF \E ch \in Chars : Utf8(ch) = <<Head(bytes)>>
  THEN <<CHOOSE ch \in Chars : Utf8(ch) = <<Head(bytes)>> >> \o FromUtf8(Tail(bytes))
  ELSE IF Len(bytes) >= 2 /\ \E ch \in Chars : Utf8(ch) = SubSeq(bytes, 1, 2)
  THEN <<CHOOSE ch \in Chars : Utf8(ch) = SubSeq(bytes, 1, 2)>>
       \o FromUtf8(SubSeq(bytes, 3, Len(bytes)))
  ELSE <<"?">>

PercentDecode(s) == FromUtf8(UnescapeBytes(s))

\* C29: for every target containing a slash or a space, each client operation
\* builds a path whose target segment is percent-encoded, with no raw slash
\* or space in it, and decodes back to exactly the original target.
C29_PathRoundTrip ==
  (/\ calc.fn = "path"
   /\ \E i \in 1 .. Len(calc.target) : calc.target[i] \in {"/", " "}) =>
    LET seg == LastSegment(calc.path) IN
    /\ \A i \in 1 .. Len(seg) : seg[i] \notin {"/", " "}
    /\ PercentDecode(seg) = calc.target
    /\ Len(calc.path) - Len(seg) \in {3, 5}

\* "a/ " became a%2F%20 behind /position/50/
C29_Witness ==
  /\ calc.fn = "path"
  /\ calc.op = "setPosition"
  /\ calc.target = <<"a", "/", " ">>
  /\ calc.path = <<"/", "position", "/", "50", "/", "a", "%", "2", "F", "%", "2", "0">>

(***************************************************************************)
(* Two buttons of the lock controller, each with its own port setting:     *)
(* the lifecycle events and the key presses.  The poll tick is explored    *)
(* with one button in Spec.                                                *)
(***************************************************************************)
LifeKinds == {"lock"}

InitLife ==
  /\ kind \in LifeKinds
  /\ buttons = Ctx
  /\ dials = {}
  /\ Fresh
  /\ calc = NoCalc
  /\ port \in [Ctx -> CustomPorts \cup {NoPort}]

NextLife ==
  \/ \E c \in Ctx : WillAppear(c)
  \/ \E c \in Ctx : WillDisappear(c)
  \/ \E c \in Ctx, t \in Targets \cup {NoTarget}, p \in CustomPorts \cup {NoPort} :
       DidReceiveSettings(c, t, p)
  \/ \E task \in BagToSet(tasks), r \in Responses(kind) : FetchDone(task, r)
  \/ \E c \in Ctx : KeyDown(c, TRUE, NoArm, FALSE, "")
  \/ \E task \in BagToSet(tasks), out \in Outcomes : KeyDownDone(task, out)

SpecLife == InitLife /\ [][NextLife]_vars

\* C30: WillDisappear is synchronous and local: it removes the instance id
\* from the active-context set, stops the timer exactly when the set becomes
\* empty, issues no request, and leaves the cache, the hold map and the
\* client unchanged; a WillDisappear for an id that is not the last one
\* leaves the timer running.
C30_DisappearLocal ==
  [][ev'.op = "willDisappear" =>
       /\ activeContexts' = activeContexts \ {ev'.c}
       /\ activeContexts' = {} => ~pollTimer'
       /\ (pollTimer /\ activeContexts' = {}) => timers' = timers - 1
       /\ activeContexts' # {} => (pollTimer' = pollTimer /\ timers' = timers)
       /\ ev'.req = "none"
       /\ tasks' = tasks
       /\ cache' = cache
       /\ optimisticUntil' = optimisticUntil
       /\ client' = client
       /\ port' = port /\ settings' = settings
    ]_vars

\* one of two buttons left: the timer runs on, with a cache entry, a hold and
\* a client on a custom port in place
C30_Witness ==
  /\ ev.op = "willDisappear"
  /\ activeContexts # {}
  /\ pollTimer
  /\ timers = 1
  /\ DOMAIN cache # {}
  /\ \E t \in Targets : optimisticUntil[t] > 0
  /\ client \in CustomPorts

(***************************************************************************)
(* Key press of the light controller with a target brightness.             *)
(***************************************************************************)
\* C31: LightAction.onKeyDown with a target brightness configured and a
\* cache entry sends turnOff when the cached light is on and, on success,
\* caches off with brightness 0; it sends setBrightness with the target
\* brightness when the cached light is off and, on success, caches on with
\* that brightness.  With no target brightness, or with no cache entry, it
\* sends toggle.
C31_LightTargetBrightness ==
  calc.fn = "lightPress" =>
    LET cached == calc.cached
        tb == calc.targetBrightness
    IN
    IF tb # NoBrightness /\ cached.has
    THEN IF cached.isOn
         THEN /\ calc.req = "turnOff"
              /\ calc.out \in Succeeded =>
                   (~calc.entry.isOn /\ calc.entry.brightness = 0 /\ calc.state = 0)
         ELSE /\ calc.req = "setBrightness" /\ calc.arg = tb
              /\ calc.out \in Succeeded =>
                   (calc.entry.isOn /\ calc.entry.brightness = tb /\ calc.state = 1)
    ELSE calc.req = "toggle" /\ calc.arg = NoArg

\* the cached light is off and the configured target brightness is 0
C31_Witness ==
  /\ calc.fn = "lightPress"
  /\ calc.cached.has /\ ~calc.cached.isOn
  /\ calc.targetBrightness = 0
  /\ calc.out = "success"
  /\ calc.req = "setBrightness" /\ calc.arg = 0
  /\ calc.entry.isOn /\ calc.entry.brightness = 0

(***************************************************************************)
(* The host changes a button's stored settings without delivering a        *)
(* lifecycle event to the controller: the toggle controller with one       *)
(* button and two targets.                                                 *)
(***************************************************************************)
LiveKinds == {"toggle"}
LiveTargets == Targets \cup {"t2"}

InitLive ==
  /\ kind \in LiveKinds
  /\ buttons = {"c1"}
  /\ dials = {}
  /\ Start

\* what action.getSettings() will answer changes; no handler runs
HostChange(c, t) ==
  /\ c \in buttons
  /\ settings[c] # t
  /\ settings' = [settings EXCEPT ![c] = t]
  /\ ev' = Ev("hostChange", c, t)
  /\ UNCHANGED <<seen, client, port, calc, dials, kind, buttons, visible, activeContexts, pollTimer, timers,
                 cache, optimisticUntil, now, shown, tasks, cmdTime>>

NextLive ==
  \/ \E c \in Ctx : WillAppear(c)
  \/ \E c \in Ctx : WillDisappear(c)
  \/ \E c \in Ctx, t \in LiveTargets \cup {NoTarget} : DidReceiveSettings(c, t, port[c])
  \/ \E c \in Ctx, t \in LiveTargets \cup {NoTarget} : HostChange(c, t)
  \/ \E task \in BagToSet(tasks), r \in Responses(kind) : FetchDone(task, r)
  \/ \E c \in Ctx : KeyDown(c, TRUE, NoArm, FALSE, "")
  \/ \E task \in BagToSet(tasks), out \in Outcomes : KeyDownDone(task, out)
  \/ Tick
  \/ \E task \in BagToSet(tasks) : PollSettings(task)
  \/ \E task \in BagToSet(tasks), r \in Responses(kind) : PollDone(task, r)

SpecLive == InitLive /\ [][NextLive]_vars

\* the fetches of the tick that this step has started
TickFetchesStarted ==
  {task \in BagToSet(tasks') :
     /\ task.op = "poll" /\ task.pc = "fetch"
     /\ CopiesIn(task, tasks') > CopiesIn(task, tasks)}

\* C32: each poll tick reads the button's settings afresh from the host: when
\* the target in the settings has changed without a lifecycle event, the
\* tick fetches the new target and issues no request for the old one.
C32_TickReadsLive ==
  [][ (ev'.op = "pollSettings" /\ settings[ev'.c] # seen[ev'.c]) =>
        LET new == settings[ev'.c]
            old == seen[ev'.c]
        IN
        /\ ev'.t = new
        /\ IF new # NoTarget
           THEN /\ ev'.req = "getDeviceInfo"
                /\ \E task \in TickFetchesStarted : task.c = ev'.c /\ task.t = new
           ELSE ev'.req = "none"
        /\ \A task \in TickFetchesStarted : task.t # old
    ]_vars

\* the tick fetches a target that no lifecycle event has handed over, the
\* button having been fetched for another target before
C32_Witness ==
  /\ ev.op = "pollSettings"
  /\ ev.req = "getDeviceInfo"
  /\ ev.t = "t2"
  /\ settings[ev.c] = "t2"
  /\ seen[ev.c] = "t1"
  /\ "t1" \in DOMAIN cache
  /\ \E task \in BagToSet(tasks) : task.op = "poll" /\ task.pc = "fetch" /\ task.t = "t2"

(***************************************************************************)
(* The port requests are sent to.                                          *)
(***************************************************************************)
\* the port a button's settings ask for
PortOf(c) == IF port[c] # NoPort THEN port[c] ELSE DEFAULT_PORT

\* C33: every request made on behalf of a button is sent to the port in
\* that button's own settings, or to the default port when the button has no
\* port override, whatever the settings of the other buttons.
C33_OwnPort ==
  (ev.req # "none" /\ ev.c \in Ctx) => client = PortOf(ev.c)

(***************************************************************************)
(* Life of a hold entry of lock and garage door.                           *)
(***************************************************************************)
\* every hold entry expires 30000 ms after the last successful command
HoldMatchesCommand ==
  kind \in HoldKinds =>
    \A t \in Targets :
      optimisticUntil[t] # 0 => optimisticUntil[t] = cmdTime[t] + HOLD_MS

\* what a step may do to the hold map
HoldStep ==
  kind \in HoldKinds =>
    /\ (ev'.op = "keyDownDone" /\ ev'.res \in Succeeded) =>
          optimisticUntil' = [optimisticUntil EXCEPT ![ev'.t] = now + HOLD_MS]
    /\ (ev'.op = "keyDownDone" /\ ev'.res \notin Succeeded) =>
          optimisticUntil' = optimisticUntil
    /\ ev'.op = "keyDown" => optimisticUntil' = optimisticUntil
    /\ \A t \in Targets :
         (optimisticUntil[t] # 0 /\ optimisticUntil'[t] = 0) =>
            /\ ev'.op \in {"willAppear", "didReceiveSettings", "pollSettings"}
            /\ ev'.t = t
            /\ ev'.req = "getDeviceInfo"
            /\ now >= optimisticUntil[t]

\* C34: for lock and garage door, whenever a target has a hold entry its
\* expiry is the time the most recent successful command on it was processed
\* plus 30000 ms: each successful KeyDown replaces the expiry, a failed or
\* no-target KeyDown leaves the hold map unchanged, and the entry is removed
\* only by an updateState that runs at or after the expiry and goes on to
\* fetch.
C34_HoldExpiry == []HoldMatchesCommand /\ [][HoldStep]_vars

\* a later successful command has replaced the expiry
C34_Witness ==
  /\ kind \in HoldKinds
  /\ ev.op = "keyDownDone" /\ ev.res \in Succeeded
  /\ now = 2 * TimeStep
  /\ cmdTime[ev.t] = now
  /\ optimisticUntil[ev.t] = now + HOLD_MS

(***************************************************************************)
(* Two key presses whose commands overlap.                                 *)
(***************************************************************************)
TogglingKinds == {"toggle", "light", "fan", "humidifier", "thermostat", "lock", "garage"}

\* C35: for every toggling controller, when a second KeyDown on the same
\* target is delivered while the first is still awaiting its command and
\* both commands succeed, the cached on/off (locked, door) value afterwards
\* equals its value before, as for a device toggled twice.  Stated for two
\* completions that follow one another, the value before being the entry the
\* first completion found.
C35_DoublePress ==
  [][ (/\ kind \in TogglingKinds
       /\ ev.op = "keyDownDone" /\ ev.res \in Succeeded
       /\ DOMAIN ev.basis # {}
       /\ ev'.op = "keyDownDone" /\ ev'.res \in Succeeded
       /\ ev'.t = ev.t)
      => /\ ev.t \in DOMAIN cache'
         /\ StateBit(kind, cache'[ev.t]) = StateBit(kind, ev.basis[ev.t]) ]_vars

(***************************************************************************)
(* Two buttons of the lock or garage door controller bound to one target:  *)
(* appearing, poll ticks, and key presses once both buttons are visible,   *)
(* within the hold time.                                                   *)
(***************************************************************************)
InitTwin ==
  /\ kind \in HoldKinds
  /\ buttons = Ctx
  /\ dials = {}
  /\ Start
  /\ \A c \in Ctx : settings[c] \in Targets

NextTwin ==
  \/ \E c \in Ctx : WillAppear(c)
  \/ \E task \in BagToSet(tasks), r \in Responses(kind) : FetchDone(task, r)
  \/ \E c \in Ctx : visible = Ctx /\ KeyDown(c, TRUE, NoArm, FALSE, "")
  \/ \E task \in BagToSet(tasks), out \in Outcomes : KeyDownDone(task, out)
  \/ Tick
  \/ \E task \in BagToSet(tasks) : PollSettings(task)
  \/ \E task \in BagToSet(tasks), r \in Responses(kind) : PollDone(task, r)

SpecTwin == InitTwin /\ [][NextTwin]_vars

\* a poll tick has just run to its end and no handler is waiting
TickCompleted ==
  /\ ev.op \in {"pollSettings", "pollDone"}
  /\ tasks = EmptyBag

\* C36: for lock and garage door with two visible buttons bound to the same
\* target, after a successful KeyDown on one of them, at the end of a
\* completed poll tick both buttons render the same state, that of the
\* target's cache entry.
C36_TwinsAgree ==
  (/\ kind \in HoldKinds
   /\ visible = Ctx
   /\ \E t \in Targets :
        /\ \A c \in Ctx : settings[c] = t
        /\ cmdTime[t] >= 0
        /\ t \in DOMAIN cache
   /\ TickCompleted)
  => \A c \in Ctx : shown[c] = StateBit(kind, cache[settings[c]])

(***************************************************************************)
(* Poll ticks in progress.                                                 *)
(***************************************************************************)
\* how many handlers of the set S are waiting, counted with their multiplicity
RECURSIVE Waiting(_)
Waiting(S) ==
  IF S = {} THEN 0
  ELSE LET task == CHOOSE x \in S : TRUE IN
       CopiesIn(task, tasks) + Waiting(S \ {task})

\* the ticks in progress, and those of them waiting for getDeviceInfo
TicksInProgress == {task \in BagToSet(tasks) : task.op = "poll"}
PollFetches == {task \in TicksInProgress : task.pc = "fetch"}

\* C37: at most one poll tick of a controller is in progress at any time,
\* and so at most one poll-originated device-state request is in flight.
C37_OneTickAtATime ==
  /\ Waiting(TicksInProgress) <= 1
  /\ Waiting(PollFetches) <= 1

(***************************************************************************)
(* Life of a cache entry.                                                  *)
(***************************************************************************)
\* the targets whose entry this step has created or changed
Written == {t \in DOMAIN cache' : t \notin DOMAIN cache \/ cache'[t] # cache[t]}

\* C38: a cache entry for a target is created or overwritten only by a
\* successful device-state fetch that returned a device for it or by a
\* successful command on it, and no step ever deletes an entry: the set of
\* cached targets only grows.
C38_CacheOnlyGrows ==
  [][ /\ DOMAIN cache \subseteq DOMAIN cache'
      /\ Written # {} =>
           /\ Written = {ev'.t}
           /\ \/ ev'.op \in {"fetchDone", "pollDone"} /\ ev'.res = "ok"
              \/ ev'.op = "keyDownDone" /\ ev'.res \in Succeeded ]_vars

\* the last button has gone and the timer is stopped: the entry is still there
C38_Witness ==
  /\ ev.op = "willDisappear"
  /\ activeContexts = {}
  /\ timers = 0
  /\ tasks = EmptyBag
  /\ DOMAIN cache # {}

(***************************************************************************)
(* What onDidReceiveSettings leaves alone.                                 *)
(***************************************************************************)
\* C39: DidReceiveSettings never changes the active-context set or the
\* timer state and never creates or extends a hold, and it changes the cache
\* only by the entry that its own successful fetch writes; with no target it
\* issues no request and leaves the cache untouched.
C39_SettingsFrame ==
  [][ /\ ev'.op = "didReceiveSettings" =>
           /\ activeContexts' = activeContexts
           /\ pollTimer' = pollTimer /\ timers' = timers
           /\ \A t \in Targets : optimisticUntil'[t] \in {optimisticUntil[t], 0}
           /\ cache' = cache
           /\ ev'.t = NoTarget => (ev'.req = "none" /\ tasks' = tasks)
      /\ (ev'.op = "fetchDone" /\ ev'.org = "settings") =>
           /\ activeContexts' = activeContexts
           /\ pollTimer' = pollTimer /\ timers' = timers
           /\ optimisticUntil' = optimisticUntil
           /\ DOMAIN cache \subseteq DOMAIN cache'
           /\ Written \subseteq {ev'.t}
           /\ Written # {} => ev'.res = "ok" ]_vars

\* the fetch of a settings change has rewritten the entry of its target
\* while an onWillAppear has yet to start the timer
C39_Witness ==
  /\ ev.op = "fetchDone" /\ ev.org = "settings" /\ ev.res = "ok"
  /\ ev.t \in DOMAIN cache
  /\ kind \in PollingKinds
  /\ activeContexts # {}
  /\ timers = 0

(***************************************************************************)
(* What a garage door button shows once onWillAppear has run to its end.   *)
(***************************************************************************)
\* onWillAppear has just returned: updateState came back at once (hold), or
\* its fetch has been answered
AppearCompleted ==
  \/ ev.op = "willAppear" /\ ev.req = "none"
  \/ ev.op = "fetchDone" /\ ev.org = "appear"

\* C40: garage door: whenever a WillAppear with a target completes and the
\* target has a cache entry, the state the button renders is the open /
\* closed value of that entry, also under an optimistic hold and after a
\* failed fetch.
C40_AppearShowsCache ==
  (/\ kind = "garage"
   /\ AppearCompleted
   /\ ev.c \notin dials
   /\ ev.t \in DOMAIN cache)
  => shown[ev.c] = StateBit(kind, cache[ev.t])

====
